---- MODULE Spec2Model ----
(***************************************************************************)
(* Draft Docs editor (src/docs-script.js): editor page sessions of the     *)
(* same browser sharing localStorage['zenoDocs'], a per-user list of       *)
(* documents keyed by String(Date.now()).                                  *)
(***************************************************************************)
EXTENDS Integers, Sequences, FiniteSets, TLC

\* ------------------------------------------------------------------ bounds
\* Date.now() ranges over 1..MaxClock.
MaxClock == 2
\* Documents in localStorage, all users together.
MaxDocs == 2
\* 300 ms save timeouts of the save button / Ctrl+S pending at once in a page.
MaxPending == 1

\* ------------------------------------------------------------------ values
\* Milliseconds between auto-save ticks, and from a save request to its save.
AUTO_SAVE_INTERVAL == 5000
SAVE_DELAY == 300

Sessions == {"tab1", "tab2"}
Users == {"ann", "bob"}
\* JavaScript null (sessionStorage miss, missing URL parameter).
Null == "<null>"
UntitledDocument == "Untitled Document"
Contents == {"", "<p>x</p>"}
Titles == {"", UntitledDocument}

Digit(d) ==
    CASE d = 0 -> "0" [] d = 1 -> "1" [] d = 2 -> "2" [] d = 3 -> "3"
      [] d = 4 -> "4" [] d = 5 -> "5" [] d = 6 -> "6" [] d = 7 -> "7"
      [] d = 8 -> "8" [] d = 9 -> "9"

RECURSIVE String(_)
\* String(Date.now()): the decimal numeral of a non-negative integer.
String(n) == IF n < 10 THEN Digit(n) ELSE String(n \div 10) \o Digit(n % 10)

\* new Date().toISOString(): a timestamp string, ordered as the clock is.
toISOString(t) == <<"iso", t>>

\* if (x): null and the empty string are falsy.
Truthy(x) == x # Null /\ x # ""

\* What ?id=... can carry: nothing, an empty value, or some id.
UrlIds == {Null, ""} \cup {String(t) : t \in 1..MaxClock}

\* ------------------------------------------------------------------ state
VARIABLES
    zenoDocs,           \* localStorage 'zenoDocs', parsed: user -> list of documents
                        \* (a user without a key reads as the empty list)
    now,                \* Date.now()
    page,               \* per session: "closed", "open", "confirm" (leave dialog)
    currentUser,
    currentProjectId,
    editorHTML,         \* editor.innerHTML
    docTitle,           \* docTitle.value
    hasUnsavedChanges,
    saveText,           \* text of the save status indicator
    autoSavePending,    \* the auto-save tick's 300 ms timeout is pending
    pendingSaves,       \* pending 300 ms timeouts of the save button / Ctrl+S
    appendedAt          \* position at which this session pushed its new document (0: none)

vars == <<zenoDocs, now, page, currentUser, currentProjectId, editorHTML, docTitle,
          hasUnsavedChanges, saveText, autoSavePending, pendingSaves, appendedAt>>

session == <<page, currentUser, currentProjectId, editorHTML, docTitle,
             hasUnsavedChanges, saveText, autoSavePending, pendingSaves, appendedAt>>

TotalDocs(allDocs) == Len(allDocs["ann"]) + Len(allDocs["bob"])

\* ------------------------------------------------------------------ helpers
\* userDocs.findIndex(doc => doc.id == id): 0-based, -1 when there is none.
findIndex(userDocs, id) ==
    IF \E i \in 1..Len(userDocs) : userDocs[i].id = id
    THEN (CHOOSE i \in 1..Len(userDocs) :
              /\ userDocs[i].id = id
              /\ \A j \in 1..(i - 1) : userDocs[j].id # id) - 1
    ELSE -1

\* The lookups of loadDocument, saveDocument and publishDocument, guarded by
\* if (currentProjectId).
lookup(userDocs, projectId) ==
    IF Truthy(projectId) THEN findIndex(userDocs, projectId) ELSE -1

newDoc(user, title, content, t) ==
    [id |-> String(t), title |-> title, content |-> content, author |-> user,
     createdAt |-> toISOString(t), modifiedAt |-> toISOString(t), published |-> FALSE]

\* saveDocument, had it rebuilt the document on update as it builds a new one.
saveDocumentResetsPublished(allDocs, user, projectId, title, content, t) ==
    LET userDocs == allDocs[user]
        docIndex == lookup(userDocs, projectId)
    IN  IF docIndex > -1
        THEN [allDocs |-> [allDocs EXCEPT ![user][docIndex + 1] =
                              [@ EXCEPT !.title = title, !.content = content,
                                        !.modifiedAt = toISOString(t),
                                        !.published = FALSE]],
              projectId |-> projectId,
              pushed |-> 0]
        ELSE [allDocs |-> [allDocs EXCEPT ![user] = Append(@, newDoc(user, title, content, t))],
              projectId |-> String(t),
              pushed |-> Len(userDocs) + 1]

\* saveDocument, had it pushed a new document onto every user's list.
saveDocumentSharedList(allDocs, user, projectId, title, content, t) ==
    LET userDocs == allDocs[user]
        docIndex == lookup(userDocs, projectId)
    IN  IF docIndex > -1
        THEN [allDocs |-> [allDocs EXCEPT ![user][docIndex + 1] =
                              [@ EXCEPT !.title = title, !.content = content,
                                        !.modifiedAt = toISOString(t)]],
              projectId |-> projectId,
              pushed |-> 0]
        ELSE [allDocs |-> [u \in DOMAIN allDocs |->
                              Append(allDocs[u], newDoc(user, title, content, t))],
              projectId |-> String(t),
              pushed |-> Len(userDocs) + 1]

\* saveDocument: the store and the project id it leaves behind.
saveDocument(allDocs, user, projectId, title, content, t) ==
    LET userDocs == allDocs[user]
        docIndex == lookup(userDocs, projectId)
    IN  IF docIndex > -1
        THEN [allDocs |-> [allDocs EXCEPT ![user][docIndex + 1] =
                              [@ EXCEPT !.title = title, !.content = content,
                                        !.modifiedAt = toISOString(t)]],
              projectId |-> projectId,
              pushed |-> 0]
        ELSE [allDocs |-> [allDocs EXCEPT ![user] = Append(@, newDoc(user, title, content, t))],
              projectId |-> String(t),
              pushed |-> Len(userDocs) + 1]

\* A save that would push a document needs room in the (bounded) store.
CanSave(s) ==
    \/ lookup(zenoDocs[currentUser[s]], currentProjectId[s]) > -1
    \/ TotalDocs(zenoDocs) < MaxDocs

saved(s) ==
    saveDocument(zenoDocs, currentUser[s], currentProjectId[s], docTitle[s], editorHTML[s], now)

\* The shared part of saveDocument, had it left the status indicator alone.
SaveKeepsStatus(s) ==
    /\ CanSave(s)
    /\ currentProjectId' = [currentProjectId EXCEPT ![s] = saved(s).projectId]
    /\ appendedAt' = [appendedAt EXCEPT ![s] = IF saved(s).pushed > 0 THEN saved(s).pushed ELSE @]
    /\ hasUnsavedChanges' = [hasUnsavedChanges EXCEPT ![s] = FALSE]
    /\ UNCHANGED saveText

\* The part of saveDocument that every caller shares.
Save(s) ==
    /\ CanSave(s)
    /\ currentProjectId' = [currentProjectId EXCEPT ![s] = saved(s).projectId]
    /\ appendedAt' = [appendedAt EXCEPT ![s] = IF saved(s).pushed > 0 THEN saved(s).pushed ELSE @]
    /\ hasUnsavedChanges' = [hasUnsavedChanges EXCEPT ![s] = FALSE]
    /\ saveText' = [saveText EXCEPT ![s] = "Saved"]

\* ------------------------------------------------------------------ init
\* No page is loaded yet.
NoPages ==
    /\ now = 1
    /\ page = [s \in Sessions |-> "closed"]
    /\ currentUser = [s \in Sessions |-> Null]
    /\ currentProjectId = [s \in Sessions |-> Null]
    /\ editorHTML = [s \in Sessions |-> ""]
    /\ docTitle = [s \in Sessions |-> ""]
    /\ hasUnsavedChanges = [s \in Sessions |-> FALSE]
    /\ saveText = [s \in Sessions |-> ""]
    /\ autoSavePending = [s \in Sessions |-> FALSE]
    /\ pendingSaves = [s \in Sessions |-> 0]
    /\ appendedAt = [s \in Sessions |-> 0]

\* localStorage has no 'zenoDocs' yet: JSON.parse('{}'), every list [].
Init ==
    /\ zenoDocs = [u \in Users |-> <<>>]
    /\ NoPages

\* ------------------------------------------------------------------ actions
\* The clock moves on.
ClockTick ==
    /\ now < MaxClock
    /\ now' = now + 1
    /\ UNCHANGED <<zenoDocs, session>>

\* loadDocument, had it kept an unmatched id as currentProjectId.
loadDocumentKeepsId(allDocs, u, projectId) ==
    LET userDocs == allDocs[u]
        i == lookup(userDocs, projectId)
    IN  IF i > -1
        THEN [projectId |-> projectId,
              content |-> IF userDocs[i + 1].content # "" THEN userDocs[i + 1].content ELSE "",
              title |-> IF userDocs[i + 1].title # "" THEN userDocs[i + 1].title
                        ELSE UntitledDocument]
        ELSE [projectId |-> projectId, content |-> "", title |-> UntitledDocument]

\* loadDocument: what the page shows for user u and the id candidate.
loadDocument(allDocs, u, projectId) ==
    LET userDocs == allDocs[u]
        i == lookup(userDocs, projectId)
    IN  IF i > -1
        THEN [projectId |-> projectId,
              content |-> IF userDocs[i + 1].content # "" THEN userDocs[i + 1].content ELSE "",
              title |-> IF userDocs[i + 1].title # "" THEN userDocs[i + 1].title
                        ELSE UntitledDocument]
        ELSE [projectId |-> Null, content |-> "", title |-> UntitledDocument]

\* DOMContentLoaded for the logged-in user u and the URL's id parameter.
DOMContentLoadedWith(s, u, urlProjectId) ==
    LET loaded == loadDocument(zenoDocs, u, IF Truthy(urlProjectId) THEN urlProjectId ELSE Null)
    IN  /\ page[s] = "closed"
        /\ page' = [page EXCEPT ![s] = "open"]
        /\ currentUser' = [currentUser EXCEPT ![s] = u]
        /\ currentProjectId' = [currentProjectId EXCEPT ![s] = loaded.projectId]
        /\ editorHTML' = [editorHTML EXCEPT ![s] = loaded.content]
        /\ docTitle' = [docTitle EXCEPT ![s] = loaded.title]
        /\ saveText' = [saveText EXCEPT ![s] = "Saved"]
        /\ UNCHANGED <<zenoDocs, now, hasUnsavedChanges, autoSavePending, pendingSaves,
                       appendedAt>>

DOMContentLoaded(s) ==
    \E u \in Users, urlProjectId \in UrlIds : DOMContentLoadedWith(s, u, urlProjectId)

\* markAsUnsaved, had it only updated the status indicator.
markAsUnsavedStatusOnly(s) ==
    /\ UNCHANGED hasUnsavedChanges
    /\ saveText' = [saveText EXCEPT ![s] = "Unsaved"]

\* markAsUnsaved: the flag and the status indicator.
markAsUnsaved(s) ==
    /\ hasUnsavedChanges' = [hasUnsavedChanges EXCEPT ![s] = TRUE]
    /\ saveText' = [saveText EXCEPT ![s] = "Unsaved"]

\* 'input' on the editor.
EditorInput(s) ==
    /\ page[s] = "open"
    /\ \E c \in Contents \ {editorHTML[s]} : editorHTML' = [editorHTML EXCEPT ![s] = c]
    /\ markAsUnsaved(s)
    /\ UNCHANGED <<zenoDocs, now, page, currentUser, currentProjectId, docTitle,
                   autoSavePending, pendingSaves, appendedAt>>

\* 'input' on the title field.
TitleInput(s) ==
    /\ page[s] = "open"
    /\ \E t \in Titles \ {docTitle[s]} : docTitle' = [docTitle EXCEPT ![s] = t]
    /\ markAsUnsaved(s)
    /\ UNCHANGED <<zenoDocs, now, page, currentUser, currentProjectId, editorHTML,
                   autoSavePending, pendingSaves, appendedAt>>

\* executeCommand: a formatting command, whether or not it changes the markup.
executeCommand(s) ==
    /\ page[s] = "open"
    /\ \E c \in Contents : editorHTML' = [editorHTML EXCEPT ![s] = c]
    /\ markAsUnsaved(s)
    /\ UNCHANGED <<zenoDocs, now, page, currentUser, currentProjectId, docTitle,
                   autoSavePending, pendingSaves, appendedAt>>

\* The handler shared by the save button and Ctrl/Cmd+S.
ScheduleSave(s) ==
    /\ page[s] = "open"
    /\ pendingSaves[s] < MaxPending
    /\ saveText' = [saveText EXCEPT ![s] = "Saving..."]
    /\ pendingSaves' = [pendingSaves EXCEPT ![s] = @ + 1]
    /\ UNCHANGED <<zenoDocs, now, page, currentUser, currentProjectId, editorHTML, docTitle,
                   hasUnsavedChanges, autoSavePending, appendedAt>>

SaveClick(s) == ScheduleSave(s)

CtrlS(s) == ScheduleSave(s)

\* The 300 ms timeout of the save button / Ctrl+S fires.
SaveTimeout(s) ==
    /\ page[s] = "open"
    /\ pendingSaves[s] > 0
    /\ Save(s)
    /\ zenoDocs' = saved(s).allDocs
    /\ pendingSaves' = [pendingSaves EXCEPT ![s] = @ - 1]
    /\ UNCHANGED <<now, page, currentUser, editorHTML, docTitle, autoSavePending>>

\* The setInterval callback. The timeout a tick sets fires SAVE_DELAY later,
\* before the next tick.
AutoSaveTick(s) ==
    /\ page[s] = "open"
    /\ SAVE_DELAY < AUTO_SAVE_INTERVAL => ~autoSavePending[s]
    /\ IF hasUnsavedChanges[s]
       THEN /\ saveText' = [saveText EXCEPT ![s] = "Saving..."]
            /\ autoSavePending' = [autoSavePending EXCEPT ![s] = TRUE]
       ELSE UNCHANGED <<saveText, autoSavePending>>
    /\ UNCHANGED <<zenoDocs, now, page, currentUser, currentProjectId, editorHTML, docTitle,
                   hasUnsavedChanges, pendingSaves, appendedAt>>

\* The auto-save timeout, had its callback not called saveDocument.
AutoSaveTimeoutDropped(s) ==
    /\ page[s] = "open"
    /\ autoSavePending[s]
    /\ autoSavePending' = [autoSavePending EXCEPT ![s] = FALSE]
    /\ UNCHANGED <<zenoDocs, now, page, currentUser, currentProjectId, editorHTML, docTitle,
                   hasUnsavedChanges, saveText, pendingSaves, appendedAt>>

\* The auto-save tick's 300 ms timeout fires.
AutoSaveTimeout(s) ==
    /\ page[s] = "open"
    /\ autoSavePending[s]
    /\ Save(s)
    /\ zenoDocs' = saved(s).allDocs
    /\ autoSavePending' = [autoSavePending EXCEPT ![s] = FALSE]
    /\ UNCHANGED <<now, page, currentUser, editorHTML, docTitle, pendingSaves>>

\* publishDocument's second half, on the store and project id saveDocument left.
publish(allDocs, user, projectId) ==
    LET i == findIndex(allDocs[user], projectId)
    IN  IF ~Truthy(projectId) THEN [allDocs |-> allDocs, outcome |-> "safeguard"]
        ELSE IF i = -1 THEN [allDocs |-> allDocs, outcome |-> "TypeError"]
        ELSE [allDocs |-> [allDocs EXCEPT ![user][i + 1].published = TRUE],
              outcome |-> "published"]

publishDocument(s) ==
    /\ page[s] = "open"
    /\ Save(s)
    /\ zenoDocs' = publish(saved(s).allDocs, currentUser[s], saved(s).projectId).allDocs
    /\ UNCHANGED <<now, page, currentUser, editorHTML, docTitle, autoSavePending, pendingSaves>>

\* The page goes away: its variables and timers with it.
Unloaded(s) ==
    /\ page' = [page EXCEPT ![s] = "closed"]
    /\ currentUser' = [currentUser EXCEPT ![s] = Null]
    /\ currentProjectId' = [currentProjectId EXCEPT ![s] = Null]
    /\ editorHTML' = [editorHTML EXCEPT ![s] = ""]
    /\ docTitle' = [docTitle EXCEPT ![s] = ""]
    /\ hasUnsavedChanges' = [hasUnsavedChanges EXCEPT ![s] = FALSE]
    /\ saveText' = [saveText EXCEPT ![s] = ""]
    /\ autoSavePending' = [autoSavePending EXCEPT ![s] = FALSE]
    /\ pendingSaves' = [pendingSaves EXCEPT ![s] = 0]
    /\ appendedAt' = [appendedAt EXCEPT ![s] = 0]

\* beforeunload: the browser asks for confirmation when the handler sets returnValue.
BeforeUnload(s) ==
    /\ page[s] = "open"
    /\ IF hasUnsavedChanges[s]
       THEN /\ page' = [page EXCEPT ![s] = "confirm"]
            /\ UNCHANGED <<currentUser, currentProjectId, editorHTML, docTitle,
                           hasUnsavedChanges, saveText, autoSavePending, pendingSaves,
                           appendedAt>>
       ELSE Unloaded(s)
    /\ UNCHANGED <<zenoDocs, now>>

\* The user confirms leaving.
ConfirmLeave(s) ==
    /\ page[s] = "confirm"
    /\ Unloaded(s)
    /\ UNCHANGED <<zenoDocs, now>>

\* The user stays on the page.
ConfirmStay(s) ==
    /\ page[s] = "confirm"
    /\ page' = [page EXCEPT ![s] = "open"]
    /\ UNCHANGED <<zenoDocs, now, currentUser, currentProjectId, editorHTML, docTitle,
                   hasUnsavedChanges, saveText, autoSavePending, pendingSaves, appendedAt>>

\* ------------------------------------------------------------------ specifications
\* One step of the pages in the set S, or of the clock.
NextOf(S) ==
    \/ ClockTick
    \/ \E s \in S : DOMContentLoaded(s)
    \/ \E s \in S : EditorInput(s)
    \/ \E s \in S : TitleInput(s)
    \/ \E s \in S : executeCommand(s)
    \/ \E s \in S : SaveClick(s)
    \/ \E s \in S : CtrlS(s)
    \/ \E s \in S : SaveTimeout(s)
    \/ \E s \in S : AutoSaveTick(s)
    \/ \E s \in S : AutoSaveTimeout(s)
    \/ \E s \in S : publishDocument(s)
    \/ \E s \in S : BeforeUnload(s)
    \/ \E s \in S : ConfirmLeave(s)
    \/ \E s \in S : ConfirmStay(s)

Next == NextOf(Sessions)

\* Every tab of the browser, reloads included.
Spec == Init /\ [][Next]_vars

NextOne == NextOf({"tab1"})

\* One tab, reloaded any number of times by any user.
SpecOne == Init /\ [][NextOne]_vars

\* Two tabs open side by side, each loaded once and left to auto-save and publish.
NextTabs ==
    \/ ClockTick
    \/ \E s \in Sessions : DOMContentLoaded(s)
    \/ \E s \in Sessions : EditorInput(s)
    \/ \E s \in Sessions : AutoSaveTick(s)
    \/ \E s \in Sessions : AutoSaveTimeout(s)
    \/ \E s \in Sessions : publishDocument(s)

SpecTabs == Init /\ [][NextTabs]_vars

\* A store an earlier session left behind: ann saved one document, its title cleared.
EarlierDocs ==
    [u \in Users |-> IF u = "ann" THEN <<newDoc("ann", "", "<p>x</p>", 1)>> ELSE <<>>]

InitLive ==
    /\ zenoDocs \in {[u \in Users |-> <<>>], EarlierDocs}
    /\ NoPages

\* One page that stays open: its interval timer keeps ticking and every
\* timeout it sets fires.
NextLive ==
    \/ ClockTick
    \/ DOMContentLoaded("tab1")
    \/ EditorInput("tab1")
    \/ TitleInput("tab1")
    \/ executeCommand("tab1")
    \/ SaveClick("tab1")
    \/ CtrlS("tab1")
    \/ SaveTimeout("tab1")
    \/ AutoSaveTick("tab1")
    \/ AutoSaveTimeout("tab1")
    \/ publishDocument("tab1")

LiveSpec ==
    /\ InitLive
    /\ [][NextLive]_vars
    /\ WF_vars(AutoSaveTick("tab1"))
    /\ WF_vars(AutoSaveTimeout("tab1"))
    /\ WF_vars(SaveTimeout("tab1"))

\* ------------------------------------------------------------------ claims
\* A step in which saveDocument runs from one of the 300 ms timeouts.
SaveStep(s) == SaveTimeout(s) \/ AutoSaveTimeout(s)

Loaded(s) == page[s] # "closed"

\* Position i of the list holds a document with this id, title and content.
HoldsCopy(userDocs, i, id, title, content) ==
    /\ userDocs[i].id = id
    /\ userDocs[i].title = title
    /\ userDocs[i].content = content

\* C1: a saveDocument whose currentProjectId matches a stored document of the
\* user rewrites that one document's title, content and modifiedAt and leaves
\* the list's length and order, the document's id, author, createdAt and
\* published flag, and every other document as they were.
C1_SaveUpdatesInPlace ==
    [][\A s \in Sessions :
         LET old == zenoDocs[currentUser[s]]
             new == zenoDocs'[currentUser[s]]
         IN  (/\ SaveStep(s)
              /\ \E i \in 1..Len(old) : old[i].id = currentProjectId[s])
             => /\ Len(new) = Len(old)
                /\ \E i \in 1..Len(old) :
                     /\ old[i].id = currentProjectId[s]
                     /\ new[i].title = docTitle[s]
                     /\ new[i].content = editorHTML[s]
                     /\ new[i].modifiedAt = toISOString(now)
                     /\ new[i].id = old[i].id
                     /\ new[i].author = old[i].author
                     /\ new[i].createdAt = old[i].createdAt
                     /\ new[i].published = old[i].published
                     /\ \A j \in (1..Len(old)) \ {i} : new[j] = old[j]
                /\ \A v \in Users \ {currentUser[s]} : zenoDocs'[v] = zenoDocs[v]
    ]_vars

\* A published document in a list of two, rewritten by a save after its creation.
C1_Witness ==
    \E s \in Sessions :
        /\ page[s] = "open"
        /\ ~hasUnsavedChanges[s]
        /\ Len(zenoDocs[currentUser[s]]) = 2
        /\ \E i \in 1..2 :
             LET d == zenoDocs[currentUser[s]][i]
             IN  /\ d.id = currentProjectId[s]
                 /\ d.published
                 /\ d.modifiedAt # d.createdAt
                 /\ d.title = docTitle[s]
                 /\ d.content = editorHTML[s]

\* C2: in a session that started on a new document, the first saveDocument
\* pushes one document (author the current user; unpublished unless the save is
\* publishDocument's) and sets currentProjectId to its id, and every later
\* save of the session rewrites that same document and pushes no other.
C2_OneDocumentPerSession ==
    [][\A s \in Sessions :
         LET old == zenoDocs[currentUser[s]]
             new == zenoDocs'[currentUser[s]]
         IN  /\ ((SaveStep(s) \/ publishDocument(s)) /\ appendedAt[s] = 0
                    /\ currentProjectId[s] = Null)
                => /\ Len(new) = Len(old) + 1
                   /\ new[Len(new)].author = currentUser[s]
                   /\ SaveStep(s) => ~new[Len(new)].published
                   /\ currentProjectId'[s] = new[Len(new)].id
                   /\ appendedAt'[s] = Len(new)
             /\ ((SaveStep(s) \/ publishDocument(s)) /\ appendedAt[s] > 0)
                => /\ Len(new) = Len(old)
                   /\ HoldsCopy(new, appendedAt[s], currentProjectId[s],
                                docTitle[s], editorHTML[s])
    ]_vars

\* C3: publishDocument always ends in its publishing branch, and leaves in the
\* user's list a published document with the id currentProjectId and the
\* editor's title and content.
C3_PublishStoresPublishedCopy ==
    [][\A s \in Sessions :
         publishDocument(s)
         => /\ publish(saved(s).allDocs, currentUser[s], saved(s).projectId).outcome
                  = "published"
            /\ \E i \in 1..Len(zenoDocs'[currentUser[s]]) :
                 /\ HoldsCopy(zenoDocs'[currentUser[s]], i, currentProjectId'[s],
                              docTitle[s], editorHTML[s])
                 /\ zenoDocs'[currentUser[s]][i].published
    ]_vars

\* C5: no two documents of one user's list have the same id.
C5_UniqueIds ==
    \A u \in Users :
        \A i, j \in 1..Len(zenoDocs[u]) :
            i # j => zenoDocs[u][i].id # zenoDocs[u][j].id

\* Some document of the session's user has the session's project id and the
\* editor's title and content.
StoredCopy(s) ==
    \E i \in 1..Len(zenoDocs[currentUser[s]]) :
        HoldsCopy(zenoDocs[currentUser[s]], i, currentProjectId[s], docTitle[s], editorHTML[s])

\* C4: while the page stays open, unsaved changes are eventually saved: a save
\* from a timeout clears hasUnsavedChanges and stores the title and content the
\* editor holds when it runs (edits made since the tick included), and an edit
\* sets hasUnsavedChanges again.
C4_AutoSavePersistsEdits ==
    /\ [][\A s \in Sessions :
            /\ SaveStep(s)
               => /\ ~hasUnsavedChanges'[s]
                  /\ \E i \in 1..Len(zenoDocs'[currentUser[s]]) :
                       HoldsCopy(zenoDocs'[currentUser[s]], i, currentProjectId'[s],
                                 docTitle[s], editorHTML[s])
            /\ (EditorInput(s) \/ TitleInput(s) \/ executeCommand(s))
               => hasUnsavedChanges'[s]
       ]_vars
    /\ \A s \in Sessions : hasUnsavedChanges[s] ~> ~hasUnsavedChanges[s]

\* Edits (content typed, title cleared) saved into the document the page pushed,
\* with no save left pending.
C4_Witness ==
    \E s \in Sessions :
        /\ page[s] = "open"
        /\ ~hasUnsavedChanges[s]
        /\ ~autoSavePending[s]
        /\ pendingSaves[s] = 0
        /\ saveText[s] = "Saved"
        /\ editorHTML[s] = "<p>x</p>"
        /\ docTitle[s] = ""
        /\ appendedAt[s] > 0
        /\ StoredCopy(s)

\* The URL's id names a document of user u.
Hit(u, urlProjectId) ==
    /\ Truthy(urlProjectId)
    /\ \E i \in 1..Len(zenoDocs[u]) : zenoDocs[u][i].id = urlProjectId

\* What loading leaves untouched, and what a page without a document does:
\* localStorage is not written, a missing or unmatched id gives a new, empty
\* 'Untitled Document' with currentProjectId null, and a save of a page whose
\* currentProjectId is null pushes a document and rewrites none.
LoadsNewOnMiss ==
    \A s \in Sessions :
        /\ \A u \in Users, urlProjectId \in UrlIds :
             DOMContentLoadedWith(s, u, urlProjectId)
             => /\ zenoDocs' = zenoDocs
                /\ ~Hit(u, urlProjectId)
                   => /\ currentProjectId'[s] = Null
                      /\ editorHTML'[s] = ""
                      /\ docTitle'[s] = UntitledDocument
                /\ Hit(u, urlProjectId) => currentProjectId'[s] = urlProjectId
        /\ (SaveStep(s) /\ currentProjectId[s] = Null)
           => /\ Len(zenoDocs'[currentUser[s]]) = Len(zenoDocs[currentUser[s]]) + 1
              /\ \A i \in 1..Len(zenoDocs[currentUser[s]]) :
                   zenoDocs'[currentUser[s]][i] = zenoDocs[currentUser[s]][i]
              /\ \A v \in Users \ {currentUser[s]} : zenoDocs'[v] = zenoDocs[v]

\* C6 as stated: a matching id shows the stored content and the stored title.
C6_LoadShowsStoredTitle ==
    [][/\ LoadsNewOnMiss
       /\ \A s \in Sessions, u \in Users, urlProjectId \in UrlIds :
            (DOMContentLoadedWith(s, u, urlProjectId) /\ Hit(u, urlProjectId))
            => \E i \in 1..Len(zenoDocs[u]) :
                 HoldsCopy(zenoDocs[u], i, urlProjectId, docTitle'[s], editorHTML'[s])
    ]_vars

\* C6 as amended: a matching id shows the stored content, and the stored title
\* unless that is empty, in which case the title field shows 'Untitled Document'.
C6_LoadShowsStoredOrDefaultTitle ==
    [][/\ LoadsNewOnMiss
       /\ \A s \in Sessions, u \in Users, urlProjectId \in UrlIds :
            (DOMContentLoadedWith(s, u, urlProjectId) /\ Hit(u, urlProjectId))
            => \E i \in 1..Len(zenoDocs[u]) :
                 /\ zenoDocs[u][i].id = urlProjectId
                 /\ editorHTML'[s] = zenoDocs[u][i].content
                 /\ docTitle'[s] = IF zenoDocs[u][i].title = "" THEN UntitledDocument
                                   ELSE zenoDocs[u][i].title
    ]_vars

\* A page that has just loaded a stored document whose title is empty.
C6_Witness ==
    \E s \in Sessions :
        /\ page[s] = "open"
        /\ saveText[s] = "Saved"
        /\ appendedAt[s] = 0
        /\ currentProjectId[s] # Null
        /\ docTitle[s] = UntitledDocument
        /\ editorHTML[s] = "<p>x</p>"
        /\ \E i \in 1..Len(zenoDocs[currentUser[s]]) :
             HoldsCopy(zenoDocs[currentUser[s]], i, currentProjectId[s], "", "<p>x</p>")

\* C7: an auto-save tick that finds hasUnsavedChanges false schedules nothing
\* and changes neither localStorage nor the status indicator, and the save an
\* auto-save tick scheduled never runs while hasUnsavedChanges is false.
C7_AutoSaveOnlyWhenUnsaved ==
    [][\A s \in Sessions :
         /\ (AutoSaveTick(s) /\ ~hasUnsavedChanges[s])
            => UNCHANGED <<zenoDocs, saveText, autoSavePending, pendingSaves>>
         /\ AutoSaveTimeout(s) => hasUnsavedChanges[s]
    ]_vars

\* The page is new and still as loadDocument left it.
Fresh(s) ==
    /\ currentProjectId[s] = Null
    /\ editorHTML[s] = ""
    /\ docTitle[s] = UntitledDocument

\* beforeunload asks for confirmation exactly when hasUnsavedChanges is true.
AsksWhenUnsaved ==
    \A s \in Sessions :
        BeforeUnload(s) => ((page'[s] = "confirm") <=> hasUnsavedChanges[s])

\* C8 as stated: without unsaved changes the editor's title and content are
\* those of the stored document, or the page is a new, untouched document.
C8_NoUnsavedMeansStored ==
    /\ [][AsksWhenUnsaved]_vars
    /\ [](\A s \in Sessions :
            (Loaded(s) /\ ~hasUnsavedChanges[s]) => (StoredCopy(s) \/ Fresh(s)))

\* The stored document has the editor's content, and its title, taking an
\* empty stored title to be shown as 'Untitled Document'.
StoredAsShown(s) ==
    \E i \in 1..Len(zenoDocs[currentUser[s]]) :
        LET d == zenoDocs[currentUser[s]][i]
        IN  /\ d.id = currentProjectId[s]
            /\ d.content = editorHTML[s]
            /\ \/ d.title = docTitle[s]
               \/ d.title = "" /\ docTitle[s] = UntitledDocument

\* C8 as amended: ... are those of the stored document, where a document
\* stored with an empty title is shown as 'Untitled Document' ...
C8_NoUnsavedMeansStoredAsShown ==
    /\ [][AsksWhenUnsaved]_vars
    /\ [](\A s \in Sessions :
            (Loaded(s) /\ ~hasUnsavedChanges[s]) => (StoredAsShown(s) \/ Fresh(s)))

\* The leave dialog is up over edits the stored document does not have.
C8_Witness ==
    \E s \in Sessions :
        /\ page[s] = "confirm"
        /\ hasUnsavedChanges[s]
        /\ currentProjectId[s] # Null
        /\ ~StoredAsShown(s)

\* C9: saveDocument and publishDocument of a session leave every other user's
\* list as it was, and a page only ever shows a document of its own user's list.
C9_OtherUsersUntouched ==
    [][\A s \in Sessions :
         /\ (SaveStep(s) \/ publishDocument(s))
            => \A v \in Users \ {currentUser[s]} : zenoDocs'[v] = zenoDocs[v]
         /\ \A u \in Users, urlProjectId \in UrlIds :
              DOMContentLoadedWith(s, u, urlProjectId)
              => \/ /\ currentProjectId'[s] = Null
                    /\ editorHTML'[s] = ""
                 \/ \E i \in 1..Len(zenoDocs[u]) :
                      /\ zenoDocs[u][i].id = currentProjectId'[s]
                      /\ zenoDocs[u][i].author = u
                      /\ zenoDocs[u][i].content = editorHTML'[s]
    ]_vars

\* A session has pushed and published its document while another user has one too.
C9_Witness ==
    \E s \in Sessions :
        /\ page[s] = "open"
        /\ appendedAt[s] > 0
        /\ zenoDocs[currentUser[s]][appendedAt[s]].published
        /\ \E v \in Users \ {currentUser[s]} :
             /\ Len(zenoDocs[v]) = 1
             /\ zenoDocs[v][1].id = currentProjectId[s]

\* C10: 'Saved' shows only without unsaved changes, 'Unsaved' only with them,
\* 'Saving...' only while a save timeout is pending, and 'Saving...' always
\* gives way to 'Saved' while the page stays open.
C10_StatusAgreesWithFlag ==
    /\ [](\A s \in Sessions :
            Loaded(s) =>
               /\ saveText[s] = "Saved" => ~hasUnsavedChanges[s]
               /\ saveText[s] = "Unsaved" => hasUnsavedChanges[s]
               /\ saveText[s] = "Saving..." => (autoSavePending[s] \/ pendingSaves[s] > 0)
               /\ saveText[s] \in {"Saved", "Unsaved", "Saving..."})
    /\ \A s \in Sessions : (saveText[s] = "Saving...") ~> (saveText[s] = "Saved")

\* 'Saving...' with the auto-save timeout and a manual one pending together.
C10_Witness ==
    \E s \in Sessions :
        /\ saveText[s] = "Saving..."
        /\ hasUnsavedChanges[s]
        /\ autoSavePending[s]
        /\ pendingSaves[s] > 0

====
